---- MODULE Spec2Model ----
(***************************************************************************)
(* Model of the WAV segment labelling tool (src/vite.config.js, the App    *)
(* component): the segment list of the current file, the waveform view's   *)
(* regions, the per-file cache (in-memory map and localStorage), and the   *)
(* handlers that read and write them.                                      *)
(*                                                                         *)
(* Conventions.                                                            *)
(*  - Times are integers counted in ticks of half a second: 0.5 s = 1,     *)
(*    1.0 s = 2 (ONE_SECOND), 5.0 s = 10.                                  *)
(*  - A File is represented by its fileKey (line 156); its audio length is *)
(*    FileDuration(key).                                                   *)
(*  - files, current, duration, rows and audioBuffer are the state of the  *)
(*    last render that React committed: what the handlers' closures, the   *)
(*    buttons and the inputs show.                                         *)
(*  - The state updates made outside a user event are left pending         *)
(*    (queued): the setDuration and setRows of the view's "ready" handler  *)
(*    (266-295), the setRows([]) that loadFile makes inside the load       *)
(*    effect (323, 204) and the setAudioBuffer after loadFile's awaits     *)
(*    (345). The refs and the view's regions change at once. React renders *)
(*    and commits the pending updates in a later task (Render) and runs    *)
(*    the passive effects of that commit in a task after it (Effects):     *)
(*    the persist effect (207-214), the rowsShadowRef effect (216) and the *)
(*    effect that registers the beforeunload listener (218-222), in        *)
(*    declaration order. Any event can run between an update and its       *)
(*    render, and between a commit and its effects (effectsPending); in    *)
(*    that window rowsShadowRef, the cache and the beforeunload listener   *)
(*    are those of the commit before.                                      *)
(*  - A handler of a user event (a click, a change, a typed value, a drag  *)
(*    of a region) is one action together with the React render and the    *)
(*    effects that its state updates trigger. The handler itself reads the *)
(*    state of the last commit and the refs as they are. React then runs   *)
(*    the effects that are still pending, renders the pending updates and  *)
(*    those of the handler, commits, and runs the effects of that commit   *)
(*    before the next event is handled: the persist effect, the            *)
(*    rowsShadowRef effect, the beforeunload effect and the load effect    *)
(*    (352-354).                                                           *)
(*  - A label is the sequence of its UTF-16 code units, as a JavaScript    *)
(*    string is: "x" is 120, the space 32, the tab 9, "_" 95.              *)
(*  - requestAnimationFrame callbacks all do "isRestoringRef = false";     *)
(*    the callbacks requested before a frame all run in that frame, so one *)
(*    boolean (rafPending) carries them.                                   *)
(*  - `current` is the 0-based index of the source; files[current] of the  *)
(*    source is files[current + 1] here.                                   *)
(***************************************************************************)
EXTENDS Integers, Sequences, FiniteSets, TLC

(***************************************************************************)
(* Program constants                                                       *)
(***************************************************************************)
ONE_SECOND == 2
DEFAULT_MAX_LEN == 2
MIN_LEN == 1
MAX_LEN == 10
MAX_REGIONS == 7
Infinity == 1000000

COLORS ==
  << "#22c55e55", "#3b82f655", "#ef444455", "#eab30855",
     "#a855f755", "#06b6d455", "#f9731655" >>

(***************************************************************************)
(* Bounds of the model                                                     *)
(***************************************************************************)
\* MaxOps: the number of events of a session that the model counts: the user
\* actions (picks, clicks, edits) and the completions of a decode.
MaxOps == 5
\* MaxFiles: the length that the file list is allowed to reach.
MaxFiles == 2

Keys == {"a.wav|1|1", "b.wav|2|2"}

FileDuration(k) == IF k = "a.wav|1|1" THEN 1 ELSE 4

\* The values typed and the drags tried.
MaxLenInputs == {12, -1}
Labels == { << 120, 32, 9, 121 >> }            \* "x", space, tab, "y"
DragEvents == { <<1, 4>> }

VARIABLES
  files, current, duration, rows,
  seedOnReadyRef, rowsShadowRef, isRestoringRef, pendingRowsRef,
  fileRowsRef, ls, regions,
  wsLoading, wsKey, wsDuration, rafPending, alerted, queued, effectsPending,
  audioBuffer, decoding, storageFull,
  ops, exports,
  persisted, expectRows, owner, deletedIds, completed, durableStart, lsRead, opened,
  fnArgs, fnResult

progVars ==
  << files, current, duration, rows,
     seedOnReadyRef, rowsShadowRef, isRestoringRef, pendingRowsRef,
     fileRowsRef, ls, regions,
     wsLoading, wsKey, wsDuration, rafPending, alerted, queued, effectsPending >>

\* The decoded audio (143), the decodes in flight (343-344: decoding[k] is the
\* number of loadFile calls for file k that have not reached line 345 yet),
\* the downloads of the last save action, and the state of the durable
\* storage's quota.
exportVars == << audioBuffer, exports >>

ghostVars ==
  << ops,
     persisted, expectRows, owner, deletedIds, completed, durableStart, lsRead, opened >>

\* The arguments and the result of a function checked on its own.
fnVars == << fnArgs, fnResult >>

vars == << progVars, ghostVars, fnVars, exportVars, decoding, storageFull >>

(***************************************************************************)
(* Helpers                                                                 *)
(***************************************************************************)
Min(a, b) == IF a < b THEN a ELSE b
Max(a, b) == IF a > b THEN a ELSE b
Range(s) == { s[i] : i \in DOMAIN s }
IdsOf(rs) == { rs[i].id : i \in DOMAIN rs }
Take(s, n) == SubSeq(s, 1, Min(n, Len(s)))
isFinite(x) == x < Infinity

Row(id, label, maxLen, start, end, color) ==
  [id |-> id, label |-> label, maxLen |-> maxLen,
   start |-> start, end |-> end, color |-> color]

Region(id, start, end, color) ==
  [id |-> id, start |-> start, end |-> end, color |-> color]

\* JSON.stringify(rows) / JSON.parse(s): an array of objects, each object
\* written as its fields in order.
StringifyRow(r) == << r.id, r.label, r.maxLen, r.start, r.end, r.color >>
ParseRow(t) == Row(t[1], t[2], t[3], t[4], t[5], t[6])
Stringify(rs) == [i \in DOMAIN rs |-> StringifyRow(rs[i])]
Parse(s) == [i \in DOMAIN s |-> ParseRow(s[i])]

\* Mutant of FirstUnused: the last unused colour instead of the first.
FirstUnused_Last(used) ==
  IF \E i \in DOMAIN COLORS : COLORS[i] \notin used
  THEN COLORS[CHOOSE i \in DOMAIN COLORS :
                /\ COLORS[i] \notin used
                /\ \A j \in (i + 1)..Len(COLORS) : COLORS[j] \in used]
  ELSE COLORS[1]

\* COLORS.find(c => !used.has(c)) || COLORS[0]
FirstUnused(used) ==
  IF \E i \in DOMAIN COLORS : COLORS[i] \notin used
  THEN COLORS[CHOOSE i \in DOMAIN COLORS :
                /\ COLORS[i] \notin used
                /\ \A j \in 1..(i - 1) : COLORS[j] \in used]
  ELSE COLORS[1]

pickColor(rowsArr) == FirstUnused({ rowsArr[i].color : i \in DOMAIN rowsArr })

RECURSIVE UniqueFrom(_, _)
UniqueFrom(rowsArr, used) ==
  IF rowsArr = << >> THEN << >>
  ELSE LET r == Head(rowsArr)
           c == IF r.color \in Range(COLORS) /\ r.color \notin used
                THEN r.color ELSE FirstUnused(used)
       IN << [r EXCEPT !.color = c] >> \o UniqueFrom(Tail(rowsArr), used \cup {c})

ensureUniqueColors(rowsArr) == UniqueFrom(rowsArr, {})

\* renderRowsToRegions, line 237
Normalized(rowsToDraw) == Take(ensureUniqueColors(rowsToDraw), MAX_REGIONS)

\* renderRowsToRegions, lines 238-244
RegionsOf(rs) ==
  [i \in DOMAIN rs |->
     Region(rs[i].id, rs[i].start, Min(rs[i].start + rs[i].maxLen, rs[i].end), rs[i].color)]

(***************************************************************************)
(* The cache: fileRowsRef (Map) and localStorage                           *)
(***************************************************************************)
HasFile(f, c) == c < Len(f)
KeyAt(f, c) == f[c + 1]

Put(m, k, v) == [x \in (DOMAIN m) \cup {k} |-> IF x = k THEN v ELSE m[x]]
Remove(m, k) == [x \in (DOMAIN m) \ {k} |-> m[x]]

\* Mutant of PersistMap: the map is set after the durable write, so a failed
\* write leaves the map as it was.
PersistMap_Aborted(m, f, c, r) ==
  IF HasFile(f, c) /\ ~storageFull THEN Put(m, KeyAt(f, c), r) ELSE m

\* fileRowsRef.current.set(key, rows) of persistCurrent and of the persist effect
PersistMap(m, f, c, r) == IF HasFile(f, c) THEN Put(m, KeyAt(f, c), r) ELSE m
\* saveRowsLS(key, rows): setItem throws when the quota is exceeded and the
\* catch swallows the exception, leaving the storage as it was.
PersistLS(l, f, c, r) ==
  IF HasFile(f, c) /\ ~storageFull THEN Put(l, KeyAt(f, c), Stringify(r)) ELSE l

\* loadFile, lines 334-335: the map first, localStorage when the map has
\* nothing ("[]" is a value of the map: an empty array is truthy).
Cached(k, m, l) ==
  IF k \in DOMAIN m THEN m[k]
  ELSE IF k \in DOMAIN l THEN Parse(l[k]) ELSE << >>

\* Mutant of HasCached: a list of one segment does not count as cached.
HasCached_MoreThanOne(cached) == Len(cached) > 1

\* loadFile, line 336
HasCached(cached) == Len(cached) > 0

(***************************************************************************)
(* updateRow (386-417)                                                     *)
(***************************************************************************)
Has(patch, f) == f \in DOMAIN patch

\* const dur = wsRef.current?.getDuration?.() || duration || Infinity
DurOf(wsDur, dur) ==
  IF wsDur # 0 THEN wsDur ELSE IF dur # 0 THEN dur ELSE Infinity

\* Mutant of ApplyPatch: end is not capped by start + maxLen.
ApplyPatch_NoEndCap(r, patch, dur) ==
  LET maxAllowed == IF isFinite(dur) THEN Min(MAX_LEN, dur + ONE_SECOND) ELSE MAX_LEN
      maxLen == Min(maxAllowed,
                    Max(MIN_LEN, IF Has(patch, "maxLen") THEN patch.maxLen ELSE r.maxLen))
      start0 == IF Has(patch, "start") THEN patch.start ELSE r.start
      latestStart == Max(0, dur - maxLen)
      start == IF isFinite(dur) THEN Min(start0, latestStart) ELSE start0
      endCandidate == IF Has(patch, "end") THEN patch.end ELSE r.end
      end == IF isFinite(dur) THEN dur ELSE endCandidate
  IN Row(r.id,
         IF Has(patch, "label") THEN patch.label ELSE r.label,
         maxLen, start, end, r.color)

\* Mutant of ApplyPatch: end is not capped by the duration.
ApplyPatch_NoDurCap(r, patch, dur) ==
  LET maxAllowed == IF isFinite(dur) THEN Min(MAX_LEN, dur + ONE_SECOND) ELSE MAX_LEN
      maxLen == Min(maxAllowed,
                    Max(MIN_LEN, IF Has(patch, "maxLen") THEN patch.maxLen ELSE r.maxLen))
      start0 == IF Has(patch, "start") THEN patch.start ELSE r.start
      latestStart == Max(0, dur - maxLen)
      start == IF isFinite(dur) THEN Min(start0, latestStart) ELSE start0
  IN Row(r.id,
         IF Has(patch, "label") THEN patch.label ELSE r.label,
         maxLen, start, start + maxLen, r.color)

\* The row computed for the targeted segment, lines 393-403.
ApplyPatch(r, patch, dur) ==
  LET maxAllowed == IF isFinite(dur) THEN Min(MAX_LEN, dur + ONE_SECOND) ELSE MAX_LEN
      maxLen == Min(maxAllowed,
                    Max(MIN_LEN, IF Has(patch, "maxLen") THEN patch.maxLen ELSE r.maxLen))
      start0 == IF Has(patch, "start") THEN patch.start ELSE r.start
      latestStart == Max(0, dur - maxLen)
      start == IF isFinite(dur) THEN Min(start0, latestStart) ELSE start0
      endCandidate == IF Has(patch, "end") THEN patch.end ELSE r.end
      end == Min(start + maxLen, IF isFinite(dur) THEN dur ELSE endCandidate)
  IN Row(r.id,
         IF Has(patch, "label") THEN patch.label ELSE r.label,
         maxLen, start, end, r.color)

\* The bounds given to the view's region, lines 409-415; metaMaxLen is
\* meta?.maxLen ?? DEFAULT_MAX_LEN.
PatchRegion(reg, metaMaxLen, patch, dur) ==
  LET maxLen == Min(MAX_LEN,
                    Max(MIN_LEN, IF Has(patch, "maxLen") THEN patch.maxLen ELSE metaMaxLen))
      start0 == IF Has(patch, "start") THEN patch.start ELSE reg.start
      latestStart == Max(0, dur - maxLen)
      start == IF isFinite(dur) THEN Min(start0, latestStart) ELSE start0
      end == Min(start + maxLen,
                 IF isFinite(dur) THEN dur
                 ELSE IF Has(patch, "end") THEN patch.end ELSE reg.end)
  IN [reg EXCEPT !.start = start, !.end = end]

\* The patches the UI produces: the maxLen input (578-581) and the label
\* input (593). parseFloat(...) || DEFAULT_MAX_LEN: 0 and NaN give the default.
MaxLenPatch(v) ==
  [maxLen |-> Min(MAX_LEN, Max(MIN_LEN, IF v = 0 THEN DEFAULT_MAX_LEN ELSE v))]
LabelPatch(t) == [label |-> t]
UIPatches ==
  { MaxLenPatch(v) : v \in MaxLenInputs } \cup { LabelPatch(t) : t \in Labels }

(***************************************************************************)
(* Ghost bookkeeping                                                       *)
(***************************************************************************)
\* owner[id]: the keys of the files that were current when segment id was
\* seeded, restored, added or edited.
Touch(own, ids, f, c) ==
  IF HasFile(f, c)
  THEN [i \in DOMAIN own |-> IF i \in ids THEN own[i] \cup {KeyAt(f, c)} ELSE own[i]]
  ELSE own

Forget(own, id) == [own EXCEPT ![id] = {}]

\* A counted event: the session's budget of events is not used up.
Counted == ops < MaxOps /\ ops' = ops + 1

\* The pending state updates: none, or one record of the values that the
\* next render gives to duration, rows (when rowsSet) and audioBuffer.
Queued(d, rowsSet, r, ab) ==
  << [duration |-> d, rowsSet |-> rowsSet, rows |-> (IF rowsSet THEN r ELSE << >>),
      audioBuffer |-> ab] >>

\* The state that a render of the pending updates gives.
QDuration == IF queued = << >> THEN duration ELSE queued[1].duration
QRowsSet == queued # << >> /\ queued[1].rowsSet
QRows == IF QRowsSet THEN queued[1].rows ELSE rows
QAudio == IF queued = << >> THEN audioBuffer ELSE queued[1].audioBuffer

\* Math.random().toString(36).slice(2): a token no live segment carries. The
\* model takes the least token of IdPool that occurs nowhere in the state.
IdPool == 1..(MAX_REGIONS + 2)
MapIds(m) == UNION { IdsOf(m[k]) : k \in DOMAIN m }
LiveIds ==
  IdsOf(rows) \cup IdsOf(QRows) \cup IdsOf(rowsShadowRef) \cup IdsOf(regions)
    \cup IdsOf(pendingRowsRef)
    \cup MapIds(fileRowsRef) \cup MapIds([k \in DOMAIN ls |-> Parse(ls[k])])
    \cup IdsOf(expectRows) \cup MapIds(persisted)
FreshId == CHOOSE i \in IdPool \ LiveIds : \A j \in IdPool \ LiveIds : i <= j

(***************************************************************************)
(* The record of the round trips (persisted, expectRows), kept by watching *)
(* the cache: when a step sets the in-memory entry of a file, persisted    *)
(* takes for that file the list L that the step names as the segment list  *)
(* on screen at that moment, whatever the step stored; the entries follow  *)
(* the keys of the in-memory map. expectRows is the list so recorded for   *)
(* the file whose load the step starts.                                    *)
(***************************************************************************)
\* The step starts a load: the load effect ran loadFile for files'[current'].
LoadStarts == (files' # files \/ current' # current) /\ HasFile(files', current')

Observed(L) ==
  /\ persisted' =
       [k \in DOMAIN fileRowsRef' |->
          IF k \in DOMAIN fileRowsRef /\ fileRowsRef'[k] = fileRowsRef[k]
               /\ k \in DOMAIN persisted
          THEN persisted[k] ELSE L]
  /\ expectRows' =
       (IF LoadStarts
        THEN (IF KeyAt(files', current') \in DOMAIN persisted'
              THEN persisted'[KeyAt(files', current')] ELSE << >>)
        ELSE expectRows)

(***************************************************************************)
(* loadFile (321-348), up to its first await, called by the load effect of *)
(* a render that gave duration d and audioBuffer ab. clearAllRegions       *)
(* removes the view's regions at once; its setRows([]) (204) is pending.   *)
(***************************************************************************)
LoadFile(k, m, l, d, ab) ==
  LET cached == Cached(k, m, l)
      hasCached == HasCached(cached)
  IN /\ isRestoringRef' = TRUE
     /\ regions' = << >>                     \* clearAllRegions
     /\ queued' = Queued(d, TRUE, << >>, ab)
     /\ seedOnReadyRef' = ~hasCached
     /\ pendingRowsRef' = (IF hasCached THEN cached ELSE << >>)
     /\ wsLoading' = TRUE
     /\ wsKey' = k
     /\ wsDuration' = 0
     /\ decoding' = [decoding EXCEPT ![k] = @ + 1]  \* 343-344: one more decode in flight
     /\ lsRead' = (IF k \notin DOMAIN m THEN lsRead \cup {k} ELSE lsRead)

(***************************************************************************)
(* The persist effect (207-214), run when rows, current or files changed   *)
(***************************************************************************)
PersistEffectMap(flag, m, f, c, r) == IF flag THEN m ELSE PersistMap(m, f, c, r)
PersistEffectLS(flag, l, f, c, r) == IF flag THEN l ELSE PersistLS(l, f, c, r)

(***************************************************************************)
(* The render that follows the handler of a user event, and its effects.   *)
(*  f, c, r   files, current and rows after the pending and the handler's  *)
(*            updates                                                      *)
(*  rowsSet   a pending update or the handler called setRows               *)
(*  cfSet     files or current changed                                     *)
(*  flag, m, l, regs   isRestoringRef, the map, localStorage and the       *)
(*            regions as the handler left them                             *)
(* Before it renders, React runs the effects of the last commit that are   *)
(* still pending (m0, l0 and the shadow of that commit's rows).            *)
(***************************************************************************)
Commit(f, c, r, rowsSet, cfSet, flag, m, l, regs) ==
  LET m0 == IF effectsPending THEN PersistEffectMap(flag, m, files, current, rows) ELSE m
      l0 == IF effectsPending THEN PersistEffectLS(flag, l, files, current, rows) ELSE l
      run == rowsSet \/ cfSet
      m1 == IF run THEN PersistEffectMap(flag, m0, f, c, r) ELSE m0
      l1 == IF run THEN PersistEffectLS(flag, l0, f, c, r) ELSE l0
      runLoad == cfSet /\ HasFile(f, c)                  \* 352-354
  IN /\ files' = f
     /\ current' = c
     /\ duration' = QDuration
     /\ audioBuffer' = QAudio
     /\ rows' = r
     /\ rowsShadowRef' = (IF rowsSet THEN r                        \* 216
                          ELSE IF effectsPending THEN rows ELSE rowsShadowRef)
     /\ effectsPending' = FALSE
     /\ fileRowsRef' = m1
     /\ ls' = l1
     /\ IF runLoad
        THEN LoadFile(KeyAt(f, c), m1, l1, QDuration, QAudio)
        ELSE /\ queued' = << >>
             /\ isRestoringRef' = flag
             /\ regions' = regs
             /\ UNCHANGED << seedOnReadyRef, pendingRowsRef, wsLoading, wsKey,
                             wsDuration, decoding, lsRead >>

(***************************************************************************)
(* Initial state: the component after its first render and effects. The    *)
(* durable storage is what an earlier session left: a segment list for    *)
(* the file StoredKey and nothing for the other files.                     *)
(***************************************************************************)
EmptyMap == [k \in {} |-> << >>]

StoredKey == "b.wav|2|2"
StoredLabel == << 120, 32, 9, 121 >>           \* "x", space, tab, "y"
StoredRows == << Row(11, StoredLabel, 2, 1, 3, COLORS[2]) >>
\* A longer list left by an earlier session, one segment short of the cap.
StoredRowsCap ==
  << Row(11, StoredLabel, 2, 0, 1, COLORS[2]), Row(12, << >>, 2, 1, 3, COLORS[1]),
     Row(13, << >>, 1, 0, 1, COLORS[3]), Row(14, StoredLabel, 4, 0, 4, COLORS[6]),
     Row(15, << >>, 2, 2, 4, COLORS[5]), Row(16, << >>, 2, 0, 2, COLORS[7]) >>
InitialStorage(stored) == [k \in {StoredKey} |-> Stringify(stored)]

AllIds == IdPool \cup IdsOf(StoredRowsCap)

MainInit(stored) ==
  /\ files = << >>
  /\ current = 0
  /\ duration = 0
  /\ rows = << >>
  /\ seedOnReadyRef = FALSE
  /\ rowsShadowRef = << >>
  /\ isRestoringRef = FALSE
  /\ pendingRowsRef = << >>
  /\ fileRowsRef = EmptyMap
  /\ ls = InitialStorage(stored)
  /\ regions = << >>
  /\ wsLoading = FALSE
  /\ wsKey = ""
  /\ wsDuration = 0
  /\ rafPending = FALSE
  /\ alerted = FALSE
  /\ queued = << >>
  /\ effectsPending = FALSE
  /\ audioBuffer = ""
  /\ decoding = [k \in Keys |-> 0]
  /\ exports = << >>
  /\ ops = 0
  /\ persisted = EmptyMap
  /\ expectRows = << >>
  /\ owner = [i \in AllIds |-> IF i \in IdsOf(stored) THEN {StoredKey} ELSE {}]
  /\ deletedIds = {}
  /\ completed = {}
  /\ durableStart = ls
  /\ lsRead = {}
  /\ opened = {}

Init == MainInit(StoredRows) /\ storageFull = FALSE /\ fnArgs = << >> /\ fnResult = << >>

(***************************************************************************)
(* onPickFiles (356-366): `picked` are the chosen .wav files               *)
(***************************************************************************)
\* The picks tried: one file, or two distinct files; a file already in the
\* list is appended again.
Picks ==
  { << k >> : k \in Keys } \cup { p \in Keys \X Keys : p[1] # p[2] }

OnPickFiles(picked) ==
  /\ UNCHANGED << fnVars, exports, storageFull >>
  /\ Len(files) + Len(picked) <= MaxFiles
  /\ Counted
  /\ Commit(files \o picked, (IF Len(files) = 0 THEN 0 ELSE current), QRows,
            QRowsSet, TRUE, isRestoringRef, fileRowsRef, ls, regions)
  /\ Observed(rows')
  /\ completed' = completed \ Range(picked)
  /\ UNCHANGED << rafPending, alerted, owner, deletedIds, durableStart, opened >>

(***************************************************************************)
(* file list onClick (703-708)                                             *)
(***************************************************************************)
SelectFile(i) ==
  /\ UNCHANGED << fnVars, exports, storageFull >>
  /\ i \in 0..(Len(files) - 1)
  /\ Counted
  /\ Commit(files, i, QRows, QRowsSet, i # current, TRUE,
            PersistMap(fileRowsRef, files, current, rows),      \* persistCurrent()
            PersistLS(ls, files, current, rows),
            regions)
  /\ Observed(rows)
  /\ rafPending' = TRUE
  /\ UNCHANGED << alerted, owner, deletedIds, completed, durableStart, opened >>

(***************************************************************************)
(* completeAndNext (468-487); its button is rendered when rows.length > 0  *)
(* (718-727)                                                               *)
(***************************************************************************)
RemoveAt(f, c) == [i \in 1..(Len(f) - 1) |-> IF i <= c THEN f[i] ELSE f[i + 1]]

CompleteAndNext ==
  /\ UNCHANGED << fnVars, exports, storageFull >>
  /\ Len(rows) > 0
  /\ Counted
  /\ IF Len(files) = 0
     THEN UNCHANGED << progVars, audioBuffer, decoding, persisted, expectRows, owner,
                       deletedIds, completed, durableStart, lsRead, opened >>
     ELSE LET curKey == KeyAt(files, current)
              nextFiles == RemoveAt(files, current)
              empty == Len(nextFiles) = 0
          IN /\ Commit(nextFiles,
                       (IF empty THEN 0 ELSE Min(current, Len(nextFiles) - 1)),
                       (IF empty THEN << >> ELSE QRows),
                       empty \/ QRowsSet, TRUE, TRUE,
                       Remove(fileRowsRef, curKey), Remove(ls, curKey),
                       (IF empty THEN << >> ELSE regions))
             /\ Observed(rows')
             /\ rafPending' = TRUE
             /\ completed' = completed \cup {curKey}
             /\ opened' = opened \cup {curKey}
             /\ UNCHANGED << alerted, owner, deletedIds, durableStart >>

(***************************************************************************)
(* ws.on("ready") (266-295): the handler. setDuration and the setRows of    *)
(* renderRowsToRegions are pending until React's next render; the refs and *)
(* the view's regions change at once.                                      *)
(***************************************************************************)
SeedRows(id, d) == << Row(id, << >>, DEFAULT_MAX_LEN, 0, Min(DEFAULT_MAX_LEN, d), COLORS[1]) >>

Ready ==
  /\ UNCHANGED << fnVars, exportVars, storageFull >>
  /\ wsLoading
  /\ LET d == FileDuration(wsKey)
         restore == Len(pendingRowsRef) > 0
         noRegions == Len(regions) = 0
         noRows == Len(rowsShadowRef) = 0
         seed == ~restore /\ (seedOnReadyRef \/ (noRegions /\ noRows))
         drawn == IF restore THEN Normalized(pendingRowsRef)
                  ELSE Normalized(SeedRows(FreshId, d))
     IN IF restore \/ seed
        THEN /\ queued' = Queued(d, TRUE, drawn, QAudio)
             /\ regions' = RegionsOf(drawn)
             /\ pendingRowsRef' = (IF restore THEN << >> ELSE pendingRowsRef)
             /\ seedOnReadyRef' = (IF seed THEN FALSE ELSE seedOnReadyRef)
             /\ isRestoringRef' = TRUE
             /\ rafPending' = TRUE
             /\ owner' = Touch((IF seed THEN Forget(owner, FreshId) ELSE owner),
                                IdsOf(drawn), files, current)
             /\ deletedIds' = (IF seed THEN deletedIds \ {FreshId} ELSE deletedIds)
        ELSE /\ queued' = Queued(d, QRowsSet, QRows, QAudio)
             /\ UNCHANGED << regions, pendingRowsRef, seedOnReadyRef, isRestoringRef,
                             rafPending, owner, deletedIds >>
  /\ wsLoading' = FALSE
  /\ wsDuration' = FileDuration(wsKey)
  /\ opened' = opened \cup {wsKey}
  /\ UNCHANGED << files, current, duration, rows, rowsShadowRef, fileRowsRef, ls,
                  wsKey, alerted, effectsPending, decoding, ops, persisted, expectRows,
                  completed, durableStart, lsRead >>

(***************************************************************************)
(* React's render and commit of the pending updates, in a task of its own. *)
(* React first runs the effects of the commit before, so that the render   *)
(* waits for Effects while they are pending. The effects of this commit    *)
(* (207-222) are left pending when rows was set: their dependencies are    *)
(* rows, current and files, and only rows can change here.                 *)
(***************************************************************************)
Render ==
  /\ UNCHANGED << fnVars, exports, storageFull >>
  /\ queued # << >>
  /\ ~effectsPending
  /\ duration' = QDuration
  /\ audioBuffer' = QAudio
  /\ rows' = QRows
  /\ queued' = << >>
  /\ effectsPending' = QRowsSet
  /\ UNCHANGED << files, current, seedOnReadyRef, rowsShadowRef, isRestoringRef,
                  pendingRowsRef, fileRowsRef, ls, regions, wsLoading, wsKey,
                  wsDuration, rafPending, alerted, decoding, ghostVars >>

(***************************************************************************)
(* The passive effects of the last commit of pending updates: the persist  *)
(* effect (207-214), which reads isRestoringRef as it is now, the          *)
(* rowsShadowRef effect (216) and the registration of the beforeunload     *)
(* listener with the rows of that commit (218-222).                        *)
(***************************************************************************)
Effects ==
  /\ UNCHANGED << fnVars, exportVars, storageFull >>
  /\ effectsPending
  /\ effectsPending' = FALSE
  /\ fileRowsRef' = PersistEffectMap(isRestoringRef, fileRowsRef, files, current, rows)
  /\ ls' = PersistEffectLS(isRestoringRef, ls, files, current, rows)
  /\ rowsShadowRef' = rows
  /\ UNCHANGED << files, current, duration, rows, seedOnReadyRef, isRestoringRef,
                  pendingRowsRef, regions, wsLoading, wsKey, wsDuration, rafPending,
                  alerted, queued, decoding, ops, owner, deletedIds, completed,
                  durableStart, lsRead, opened >>
  /\ Observed(rows)

(***************************************************************************)
(* The requestAnimationFrame callbacks: isRestoringRef.current = false     *)
(***************************************************************************)
AnimationFrame ==
  /\ UNCHANGED << fnVars, exportVars, storageFull >>
  /\ rafPending
  /\ rafPending' = FALSE
  /\ isRestoringRef' = FALSE
  /\ UNCHANGED << files, current, duration, rows, seedOnReadyRef, rowsShadowRef,
                  pendingRowsRef, fileRowsRef, ls, regions, wsLoading, wsKey,
                  wsDuration, alerted, queued, effectsPending, decoding, ghostVars >>

(***************************************************************************)
(* addRow (370-384); the button is disabled unless canAddRegion (489-490)  *)
(***************************************************************************)
canAddRegion == HasFile(files, current) /\ duration > 0

\* addRow, line 373
AddCapReached(rs) == Len(rs) >= MAX_REGIONS

AddRow ==
  /\ UNCHANGED << fnVars, exports, storageFull >>
  /\ canAddRegion
  /\ Counted
  /\ IF AddCapReached(rows)
     THEN /\ alerted' = TRUE
          /\ UNCHANGED << files, current, duration, audioBuffer, rows, seedOnReadyRef,
                          rowsShadowRef, isRestoringRef, pendingRowsRef, fileRowsRef,
                          ls, regions, wsLoading, wsKey, wsDuration, rafPending,
                          queued, effectsPending, decoding, persisted, expectRows, owner,
                          deletedIds, completed, durableStart, lsRead, opened >>
     ELSE /\ LET color == pickColor(rowsShadowRef)
                 end == Min(DEFAULT_MAX_LEN, wsDuration)
                 r == Row(FreshId, << >>, DEFAULT_MAX_LEN, 0, end, color)
             IN Commit(files, current, Append(QRows, r), TRUE, FALSE, isRestoringRef,
                       fileRowsRef, ls, Append(regions, Region(FreshId, 0, end, color)))
          /\ Observed(rows')
          /\ owner' = Touch(Forget(owner, FreshId), {FreshId}, files, current)
          /\ deletedIds' = deletedIds \ {FreshId}
          /\ UNCHANGED << rafPending, alerted, completed, durableStart, opened >>

(***************************************************************************)
(* updateRow (386-417), called by the inputs of a row                      *)
(***************************************************************************)
MapRow(rs, id, F(_)) == [i \in DOMAIN rs |-> IF rs[i].id = id THEN F(rs[i]) ELSE rs[i]]
Find(rs, id) == rs[CHOOSE i \in DOMAIN rs : rs[i].id = id /\ \A j \in 1..(i - 1) : rs[j].id # id]

\* meta?.maxLen ?? DEFAULT_MAX_LEN with meta = rowsShadowRef.current.find(...)
\* (304, 408-409)
MetaMaxLen(shadow, id) ==
  IF id \in IdsOf(shadow) THEN Find(shadow, id).maxLen ELSE DEFAULT_MAX_LEN

UpdateRow(id, patch) ==
  /\ UNCHANGED << fnVars, exports, storageFull >>
  /\ id \in IdsOf(rows)
  /\ Counted
  /\ LET dur == DurOf(wsDuration, duration)
         Upd(r) == ApplyPatch(r, patch, dur)
         Reg(g) == PatchRegion(g, MetaMaxLen(rowsShadowRef, id), patch, dur)
     IN Commit(files, current, MapRow(QRows, id, Upd), TRUE, FALSE, isRestoringRef,
               fileRowsRef, ls, MapRow(regions, id, Reg))
  /\ Observed(rows')
  /\ owner' = Touch(owner, {id} \cap IdsOf(QRows), files, current)
  /\ UNCHANGED << rafPending, alerted, deletedIds, completed, durableStart, opened >>

(***************************************************************************)
(* regions.on("region-updated") (301-316): the view reports region id at   *)
(* [s, e]                                                                  *)
(***************************************************************************)
DragRow(r, s, e) == [r EXCEPT !.start = s, !.end = Min(s + r.maxLen, e)]

\* line 307: the end of the view's region after the handler's setOptions
SnapEnd(s, e, maxLen) == IF e > s + maxLen THEN s + maxLen ELSE e

RegionUpdated(id, s, e) ==
  /\ UNCHANGED << fnVars, exports, storageFull >>
  /\ id \in IdsOf(regions)
  /\ Counted
  /\ LET maxLen == MetaMaxLen(rowsShadowRef, id)
         snapEnd == SnapEnd(s, e, maxLen)
         Snap(g) == [g EXCEPT !.start = s, !.end = snapEnd]
         Drag(r) == DragRow(r, s, snapEnd)
     IN Commit(files, current, MapRow(QRows, id, Drag), TRUE, FALSE, isRestoringRef,
               fileRowsRef, ls, MapRow(regions, id, Snap))
  /\ Observed(rows')
  /\ owner' = Touch(owner, {id} \cap IdsOf(QRows), files, current)
  /\ UNCHANGED << rafPending, alerted, deletedIds, completed, durableStart, opened >>

(***************************************************************************)
(* removeRow (420-426)                                                     *)
(***************************************************************************)
Without(rs, id) == SelectSeq(rs, LAMBDA r : r.id # id)

RemoveRow(id) ==
  /\ UNCHANGED << fnVars, exports, storageFull >>
  /\ id \in IdsOf(rows)
  /\ Counted
  /\ Commit(files, current, Without(QRows, id), TRUE, FALSE, isRestoringRef,
            fileRowsRef, ls, Without(regions, id))
  /\ Observed(rows')
  /\ deletedIds' = deletedIds \cup {id}
  /\ UNCHANGED << rafPending, alerted, owner, completed, durableStart, opened >>

(***************************************************************************)
(* beforeunload (218-222): persistCurrent() of the listener that the last  *)
(* run of the effects registered. Its closure holds files, current and     *)
(* rows of that render: files and current are those of the last commit,    *)
(* and rows is what the effect of line 216, which runs with it, left in    *)
(* rowsShadowRef.                                                          *)
(***************************************************************************)
BeforeUnload ==
  /\ UNCHANGED << fnVars, exportVars, storageFull >>
  /\ Counted
  /\ fileRowsRef' = PersistMap(fileRowsRef, files, current, rowsShadowRef)
  /\ ls' = PersistLS(ls, files, current, rowsShadowRef)
  /\ UNCHANGED << files, current, duration, rows, seedOnReadyRef, rowsShadowRef,
                  isRestoringRef, pendingRowsRef, regions, wsLoading, wsKey,
                  wsDuration, rafPending, alerted, queued, effectsPending, decoding,
                  owner, deletedIds, completed, durableStart, lsRead, opened >>
  /\ Observed(rowsShadowRef)

(***************************************************************************)
(* updateRow's row computation on its own: the arguments are drawn from    *)
(* PatchArgs and CallApplyPatch applies lines 393-403 to them.             *)
(***************************************************************************)
\* The segments tried: a seeded one on a short file, one added during a load
\* ([0, 0]), dragged ones, one of the longest length.
PatchRows == { Row(1, << >>, 2, 0, 1, COLORS[1]), Row(1, << >>, 2, 0, 0, COLORS[1]),
               Row(1, << >>, 2, 3, 5, COLORS[1]), Row(1, StoredLabel, 1, 7, 8, COLORS[1]),
               Row(1, << >>, 10, 0, 10, COLORS[1]) }
\* The patches that the callers of updateRow produce (578-581, 593): the
\* values typed in the maxLen input, negative, zero, in range and beyond
\* MAX_LEN, and a typed label.
PatchMaxLenInputs == {-3, -1, 0, 1, 3, 12}
Patches == { MaxLenPatch(v) : v \in PatchMaxLenInputs } \cup { LabelPatch(t) : t \in Labels }
PatchDurations == {1, 3, 8, Infinity}
PatchArgs == PatchRows \X Patches \X PatchDurations

InitPatch ==
  MainInit(StoredRows) /\ storageFull = FALSE /\ fnArgs \in PatchArgs /\ fnResult = << >>

CallApplyPatch ==
  /\ fnResult = << >>
  /\ fnResult' = << ApplyPatch(fnArgs[1], fnArgs[2], fnArgs[3]) >>
  /\ UNCHANGED << progVars, ghostVars, fnArgs, exportVars, decoding, storageFull >>

NextPatch == CallApplyPatch

SpecPatch == InitPatch /\ [][NextPatch]_vars

(***************************************************************************)
(* pickColor on its own: the argument is drawn from ColourArgs and         *)
(* CallPickColor applies lines 158-161 to it.                              *)
(***************************************************************************)
\* MaxColourLen: the length of the lists tried with every combination of
\* colours, repeated and foreign colours included.
MaxColourLen == 2

ForeignColour == "#00000055"
ReversedPalette == [i \in DOMAIN COLORS |-> COLORS[Len(COLORS) + 1 - i]]
RowsOfColours(cs) == [i \in DOMAIN cs |-> Row(i, << >>, DEFAULT_MAX_LEN, 0, 1, cs[i])]

\* Every subset of the palette as a list (in reverse palette order), and
\* every short list over the palette and a foreign colour.
ColourLists ==
  { SelectSeq(ReversedPalette, LAMBDA c : c \in S) : S \in SUBSET Range(COLORS) }
    \cup UNION { [1..n -> Range(COLORS) \cup {ForeignColour}] : n \in 0..MaxColourLen }
ColourArgs == { << RowsOfColours(cs) >> : cs \in ColourLists }

InitColour ==
  MainInit(StoredRows) /\ storageFull = FALSE /\ fnArgs \in ColourArgs /\ fnResult = << >>

CallPickColor ==
  /\ fnResult = << >>
  /\ fnResult' = << pickColor(fnArgs[1]) >>
  /\ UNCHANGED << progVars, ghostVars, fnArgs, exportVars, decoding, storageFull >>

NextColour == CallPickColor

SpecColour == InitColour /\ [][NextColour]_vars

(***************************************************************************)
(* sliceBuffer (121-131): the frame range. Seconds are given as the        *)
(* fraction num / den.                                                     *)
(***************************************************************************)
\* line 122: Math.max(0, Math.floor(startSec * ab.sampleRate))
SliceStart(sampleRate, startNum, den) == Max(0, (startNum * sampleRate) \div den)
\* line 123: Math.min(Math.floor(endSec * ab.sampleRate), ab.length)
SliceEnd(sampleRate, length, endNum, den) == Min((endNum * sampleRate) \div den, length)
\* line 124
SliceFrames(start, end) == Max(0, end - start)

\* ctx.createBuffer(channels, frames, rate), line 125: an AudioContext throws
\* NotSupportedError when frames is not at least 1.
CreateBufferThrows(strict, frames) == strict /\ frames < 1

(***************************************************************************)
(* The decoded audio and the export of segments                            *)
(*  - audioBuffer is the key of the file whose decoded content the state   *)
(*    holds ("" for null); decoding counts, per file, the decodes in       *)
(*    flight (loadFile, 343-345).                                          *)
(*  - An export is one download: the name of the current file, the file    *)
(*    whose audio was sliced, and the frames sliced.                       *)
(***************************************************************************)
SAMPLE_RATE == 44100

\* The length in frames of the decoded content of file k.
BufferLength(k) == (FileDuration(k) * SAMPLE_RATE) \div ONE_SECOND

\* loadFile after its awaits (343-345): setAudioBuffer(decoded), for one of
\* the loadFile calls of file k; the update is pending until the next render
DecodeDone(k) ==
  /\ decoding[k] > 0
  /\ Counted
  /\ queued' = Queued(QDuration, QRowsSet, QRows, k)
  /\ decoding' = [decoding EXCEPT ![k] = @ - 1]
  /\ UNCHANGED << files, current, duration, rows, seedOnReadyRef, rowsShadowRef,
                  isRestoringRef, pendingRowsRef, fileRowsRef, ls, regions, wsLoading,
                  wsKey, wsDuration, rafPending, alerted, effectsPending, audioBuffer,
                  persisted, expectRows, owner, deletedIds, completed,
                  durableStart, lsRead, opened, fnVars, exports, storageFull >>

\* saveRow, lines 435-440: the frames sliced for segment r out of buffer ab
RowSliceStart(r) == SliceStart(SAMPLE_RATE, r.start, ONE_SECOND)
RowSliceEnd(r, ab) ==
  SliceEnd(SAMPLE_RATE, BufferLength(ab), Min(r.start + r.maxLen, r.end), ONE_SECOND)
RowSliceFrames(r, ab) == SliceFrames(RowSliceStart(r), RowSliceEnd(r, ab))

\* The code units that \s matches (ECMAScript WhiteSpace and LineTerminator):
\* tab, line feed, vertical tab, form feed, carriage return, space, U+00A0,
\* U+1680, U+2000 to U+200A, U+2028, U+2029, U+202F, U+205F, U+3000, U+FEFF.
Whitespace ==
  {9, 10, 11, 12, 13, 32, 160, 5760} \cup (8192..8202)
    \cup {8232, 8233, 8239, 8287, 12288, 65279}

\* s.replace(/\s+/g, "_"): every maximal run of whitespace becomes one "_"
RECURSIVE SkipWhitespace(_)
SkipWhitespace(s) ==
  IF s # << >> /\ Head(s) \in Whitespace THEN SkipWhitespace(Tail(s)) ELSE s

RECURSIVE ReplaceWhitespace(_)
ReplaceWhitespace(s) ==
  IF s = << >> THEN << >>
  ELSE IF Head(s) \in Whitespace
       THEN << 95 >> \o ReplaceWhitespace(SkipWhitespace(s))        \* "_"
       ELSE << Head(s) >> \o ReplaceWhitespace(Tail(s))

\* saveRow, line 444: (r.label || "seg").replace(/\s+/g, "_")
ExportLabel(label) ==
  ReplaceWhitespace(IF label = << >> THEN << 115, 101, 103 >> ELSE label)   \* "seg"

\* saveRow, lines 441-448: the download
ExportOf(r, ab, f, c) ==
  [name |-> KeyAt(f, c), label |-> ExportLabel(r.label),
   id |-> r.id, source |-> ab, first |-> RowSliceStart(r),
   frames |-> RowSliceFrames(r, ab)]

\* saveRow, line 434
CanSave == audioBuffer # "" /\ HasFile(files, current)


\* saveAll (451-453): for (const r of rows) await saveRow(r). A saveRow whose
\* slice is empty throws out of createBuffer; the rejection ends the loop.
RECURSIVE SaveEach(_, _, _, _)
SaveEach(rs, ab, f, c) ==
  IF rs = << >> THEN << >>
  ELSE IF CreateBufferThrows(TRUE, RowSliceFrames(Head(rs), ab)) THEN << >>
  ELSE << ExportOf(Head(rs), ab, f, c) >> \o SaveEach(Tail(rs), ab, f, c)

\* saveRow (433-449), the save button of segment rows[i]
SaveRow(i) ==
  /\ i \in DOMAIN rows
  /\ Counted
  /\ exports' = (IF CanSave THEN SaveEach(<< rows[i] >>, audioBuffer, files, current)
                 ELSE << >>)
  /\ UNCHANGED << progVars, persisted, expectRows, owner, deletedIds, completed,
                  durableStart, lsRead, opened, fnVars, audioBuffer, decoding,
                  storageFull >>

\* saveAll (451-453); its button is rendered when rows.length > 0 (616-620).
\* saveRow has no await of its own, and the awaits of the loop resume in
\* microtasks, so the batch runs before any other event.
SaveAll ==
  /\ Len(rows) > 0
  /\ Counted
  /\ exports' = (IF CanSave THEN SaveEach(rows, audioBuffer, files, current) ELSE << >>)
  /\ UNCHANGED << progVars, persisted, expectRows, owner, deletedIds, completed,
                  durableStart, lsRead, opened, fnVars, audioBuffer, decoding,
                  storageFull >>

(***************************************************************************)
(* The program: every handler, React's render of the pending updates, the  *)
(* animation frame and the completion of a decode.                         *)
(***************************************************************************)
Next ==
  \/ \E picked \in Picks : OnPickFiles(picked)
  \/ \E i \in 0..(Len(files) - 1) : SelectFile(i)
  \/ CompleteAndNext
  \/ Ready
  \/ Render
  \/ Effects
  \/ AnimationFrame
  \/ AddRow
  \/ \E id \in AllIds, patch \in UIPatches : UpdateRow(id, patch)
  \/ \E id \in AllIds, ev \in DragEvents : RegionUpdated(id, ev[1], ev[2])
  \/ \E id \in AllIds : RemoveRow(id)
  \/ BeforeUnload
  \/ \E k \in Keys : DecodeDone(k)
  \/ \E i \in DOMAIN rows : SaveRow(i)
  \/ SaveAll

Spec == Init /\ [][Next]_vars

(***************************************************************************)
(* The same program started on a durable storage that holds a list one     *)
(* segment short of the cap.                                               *)
(***************************************************************************)
InitCap ==
  MainInit(StoredRowsCap) /\ storageFull = FALSE /\ fnArgs = << >> /\ fnResult = << >>

SpecCap == InitCap /\ [][Next]_vars

(***************************************************************************)
(* The same program on a durable storage whose quota is used up: every     *)
(* localStorage.setItem of the session throws.                             *)
(***************************************************************************)
InitQuota ==
  MainInit(StoredRows) /\ storageFull = TRUE /\ fnArgs = << >> /\ fnResult = << >>

SpecQuota == InitQuota /\ [][Next]_vars

(***************************************************************************)
(* audioBufferToWav (71-119)                                               *)
(*  - A float sample is an integer count of steps of 1 / SAMPLE_GRID       *)
(*    (2^-16, exactly representable in a Float32Array): the sample n       *)
(*    stands for n / SAMPLE_GRID.                                          *)
(*  - An AudioBuffer is [numberOfChannels, sampleRate, length, data], with *)
(*    data[ch][i] the sample of channel ch (from 1) at frame i (from 1).   *)
(*  - The Blob is the sequence of its bytes.                               *)
(***************************************************************************)
SAMPLE_GRID == 65536
NEG_SCALE == 32768
POS_SCALE == 32767

\* a / b with the fraction discarded (b > 0)
Trunc(a, b) == IF a >= 0 THEN a \div b ELSE (a + b - 1) \div b

\* DataView.setInt16 / setUint16: the value modulo 2^16
ToUint16(x) == x % 65536
ToInt16(x) == IF ToUint16(x) >= 32768 THEN ToUint16(x) - 65536 ELSE ToUint16(x)

\* lines 114-115: clamp to [-1, 1], scale, and the integer that setInt16 stores
SampleToInt16(n) ==
  LET s == Max(0 - SAMPLE_GRID, Min(SAMPLE_GRID, n))
  IN ToInt16(IF s < 0 THEN Trunc(s * NEG_SCALE, SAMPLE_GRID)
                      ELSE Trunc(s * POS_SCALE, SAMPLE_GRID))

\* little-endian writes of the DataView
U16LE(x) == << ToUint16(x) % 256, ToUint16(x) \div 256 >>
U32LE(x) == << x % 256, (x \div 256) % 256, (x \div 65536) % 256, (x \div 16777216) % 256 >>

\* Mutant of Interleave: the channels are written one after the other.
Interleave_Planar(ab) ==
  [k \in 1..(ab.length * ab.numberOfChannels) |->
     ab.data[((k - 1) \div ab.length) + 1][((k - 1) % ab.length) + 1]]

\* lines 77-83: interleaved[i * numChannels + ch] = data[i]
Interleave(ab) ==
  [k \in 1..(ab.length * ab.numberOfChannels) |->
     ab.data[((k - 1) % ab.numberOfChannels) + 1][((k - 1) \div ab.numberOfChannels) + 1]]

RECURSIVE Pcm16(_)
Pcm16(samples) ==
  IF samples = << >> THEN << >>
  ELSE U16LE(SampleToInt16(Head(samples))) \o Pcm16(Tail(samples))

audioBufferToWav(ab) ==
  LET interleaved == Interleave(ab)
      dataBytes == Len(interleaved) * 2
  IN << 82, 73, 70, 70 >> \o U32LE(36 + dataBytes)              \* "RIFF"
       \o << 87, 65, 86, 69 >>                                  \* "WAVE"
       \o << 102, 109, 116, 32 >> \o U32LE(16) \o U16LE(1)      \* "fmt "
       \o U16LE(ab.numberOfChannels) \o U32LE(ab.sampleRate)
       \o U32LE(ab.sampleRate * ab.numberOfChannels * 2)
       \o U16LE(ab.numberOfChannels * 2) \o U16LE(16)
       \o << 100, 97, 116, 97 >> \o U32LE(dataBytes)            \* "data"
       \o Pcm16(interleaved)

(***************************************************************************)
(* The sample conversion on its own: every sample of the grid in [-1, 1]   *)
(* and the nearest ones outside.                                           *)
(***************************************************************************)
SampleArgs == { << n >> : n \in (0 - SAMPLE_GRID - 1)..(SAMPLE_GRID + 1) }

InitSample ==
  MainInit(StoredRows) /\ storageFull = FALSE /\ fnArgs \in SampleArgs /\ fnResult = << >>

CallSampleToInt16 ==
  /\ fnResult = << >>
  /\ fnResult' = << SampleToInt16(fnArgs[1]) >>
  /\ UNCHANGED << progVars, ghostVars, fnArgs, exportVars, decoding, storageFull >>

NextSample == CallSampleToInt16

SpecSample == InitSample /\ [][NextSample]_vars

(***************************************************************************)
(* The encoder on its own: buffers of up to MaxChannels channels and       *)
(* MaxFrames frames, every combination of the samples of WavSamples.       *)
(***************************************************************************)
MaxChannels == 2
MaxFrames == 2

WavSampleRates == {8000, 44100}
WavSamples == {0 - SAMPLE_GRID, 32769, SAMPLE_GRID}

AudioBuffers(samples, rates) ==
  UNION { [numberOfChannels : {c}, sampleRate : rates, length : {f},
           data : [1..c -> [1..f -> samples]]] :
            c \in 1..MaxChannels, f \in 1..MaxFrames }

WavArgs == { << ab >> : ab \in AudioBuffers(WavSamples, WavSampleRates) }

InitWav ==
  MainInit(StoredRows) /\ storageFull = FALSE /\ fnArgs \in WavArgs /\ fnResult = << >>

CallAudioBufferToWav ==
  /\ fnResult = << >>
  /\ fnResult' = << audioBufferToWav(fnArgs[1]) >>
  /\ UNCHANGED << progVars, ghostVars, fnArgs, exportVars, decoding, storageFull >>

NextWav == CallAudioBufferToWav

SpecWav == InitWav /\ [][NextWav]_vars

(***************************************************************************)
(* sliceBuffer (121-131) on its own. The arguments are the context (an     *)
(* AudioContext, whose createBuffer throws for a length below 1, or a      *)
(* context whose createBuffer accepts any length), the buffer, and the     *)
(* start and end in seconds as fractions num / SliceTimeDen.               *)
(***************************************************************************)
\* TypedArray.prototype.subarray(begin, end): a negative index counts from
\* the end, and both are clamped to the array.
Subarray(a, begin, end) ==
  LET rel(x) == IF x < 0 THEN Max(Len(a) + x, 0) ELSE Min(x, Len(a))
  IN SubSeq(a, rel(begin) + 1, rel(end))

\* out.copyToChannel(src, ch, 0) on the zeroed channel of a new buffer
CopyToChannel(frames, src) == [j \in 1..frames |-> IF j <= Len(src) THEN src[j] ELSE 0]

\* The outcome of a call that throws.
NotSupportedError == [error |-> "NotSupportedError"]
Threw(out) == "error" \in DOMAIN out

sliceBuffer(strict, ab, startNum, endNum, den) ==
  LET start == SliceStart(ab.sampleRate, startNum, den)
      end == SliceEnd(ab.sampleRate, ab.length, endNum, den)
      frames == SliceFrames(start, end)
  IN IF CreateBufferThrows(strict, frames) THEN NotSupportedError
     ELSE [numberOfChannels |-> ab.numberOfChannels, sampleRate |-> ab.sampleRate,
           length |-> frames,
           data |-> [ch \in 1..ab.numberOfChannels |->
                       CopyToChannel(frames, Subarray(ab.data[ch], start, end))]]

MaxSliceLen == 4
SliceTimeDen == 2

SliceRates == {1, 3}
\* Buffers whose samples tell the channel and the frame they come from.
SliceBuffers ==
  { [numberOfChannels |-> c, sampleRate |-> r, length |-> f,
     data |-> [ch \in 1..c |-> [i \in 1..f |-> 100 * ch + i]]] :
      c \in 1..MaxChannels, f \in 1..MaxSliceLen, r \in SliceRates }
SliceTimes == (0 - 2)..(SliceTimeDen * (MaxSliceLen + 1))
SliceArgs == BOOLEAN \X SliceBuffers \X SliceTimes \X SliceTimes

InitSlice ==
  MainInit(StoredRows) /\ storageFull = FALSE /\ fnArgs \in SliceArgs /\ fnResult = << >>

CallSliceBuffer ==
  /\ fnResult = << >>
  /\ fnResult' = << sliceBuffer(fnArgs[1], fnArgs[2], fnArgs[3], fnArgs[4], SliceTimeDen) >>
  /\ UNCHANGED << progVars, ghostVars, fnArgs, exportVars, decoding, storageFull >>

NextSlice == CallSliceBuffer

SpecSlice == InitSlice /\ [][NextSlice]_vars

(***************************************************************************)
(* Step predicates used by the properties                                  *)
(***************************************************************************)
\* The step is the ready handler.
ReadyStep == wsLoading /\ ~wsLoading'
\* The step is React's render of the pending updates, with no handler.
RenderStep == queued # << >> /\ queued' = << >> /\ ops' = ops
\* The segment list once the updates of the step are rendered.
NextRows == IF queued' # << >> /\ queued'[1].rowsSet THEN queued'[1].rows ELSE rows'
\* The step writes (sets) a cache entry; a purge is not a write.
WritesMap == \E k \in DOMAIN fileRowsRef' :
               k \notin DOMAIN fileRowsRef \/ fileRowsRef'[k] # fileRowsRef[k]
WritesLS == \E k \in DOMAIN ls' : k \notin DOMAIN ls \/ ls'[k] # ls[k]

WellFormed(L) ==
  /\ Len(L) <= MAX_REGIONS
  /\ \A i \in DOMAIN L : L[i].color \in Range(COLORS)
  /\ \A i, j \in DOMAIN L : i # j => L[i].color # L[j].color

(***************************************************************************)
(* C1. Persist/restore round trip within a session: when the load of a     *)
(* file reports ready, and the segment list L that was on screen when that *)
(* file was last persisted before the load started is non-empty (at most 7 *)
(* segments, distinct palette colours), the ready handler draws L in the   *)
(* view and the render of its updates makes L the current segment list,    *)
(* equal in order and on every field.                                      *)
(***************************************************************************)
C1_RoundTrip ==
  [][(expectRows # << >> /\ WellFormed(expectRows))
       => /\ ReadyStep => (NextRows = expectRows /\ regions' = RegionsOf(expectRows))
          /\ (RenderStep /\ QRowsSet /\ ~wsLoading) => rows' = expectRows]_vars

\* A list of two segments, made and persisted in the session, has been
\* restored by a later load of its file: the ready handler's updates are
\* rendered and their effects have run.
C1_Witness ==
  /\ ~wsLoading /\ queued = << >> /\ ~effectsPending /\ pendingRowsRef = << >>
  /\ Len(expectRows) >= 2 /\ rows = expectRows /\ regions = RegionsOf(expectRows)
  /\ HasFile(files, current) /\ KeyAt(files, current) = wsKey

(***************************************************************************)
(* C2. No cross-file leakage: every segment stored under a file's key, in  *)
(* the in-memory map or in durable storage, was seeded, restored, added or *)
(* edited while that file was the current file.                            *)
(***************************************************************************)
C2_NoCrossFileLeak ==
  /\ \A k \in DOMAIN fileRowsRef :
       \A id \in IdsOf(fileRowsRef[k]) : k \in owner[id]
  /\ \A k \in DOMAIN ls :
       \A id \in IdsOf(Parse(ls[k])) : k \in owner[id]

(***************************************************************************)
(* C4. Segments are destroyed only by explicit delete or by complete: a    *)
(* segment leaves the cache entry of a file (map or durable storage) only  *)
(* when the user deleted it or marked the file complete.                   *)
(***************************************************************************)
Kept(m, mNext, toRows(_)) ==
  \A k \in DOMAIN m :
    \A id \in IdsOf(toRows(m[k])) :
      \/ k \in DOMAIN mNext /\ id \in IdsOf(toRows(mNext[k]))
      \/ id \in deletedIds'
      \/ k \in completed'

C4_OnlyDeleteOrCompleteDestroys ==
  [][ /\ Kept(fileRowsRef, fileRowsRef', LAMBDA x : x)
      /\ Kept(ls, ls', Parse) ]_vars

(***************************************************************************)
(* C5. Suppression of cache writes during restoration: from the start of a *)
(* load until its ready handler has run, no step writes to the in-memory   *)
(* map or to durable storage.                                              *)
(***************************************************************************)
C5_NoWriteWhileLoading ==
  [][wsLoading => ~WritesMap /\ ~WritesLS]_vars

(***************************************************************************)
(* C3. Restore across process restarts: a non-empty segment list that      *)
(* durable storage holds for a file at the start of the session is not     *)
(* overwritten before it has been read, and the first ready of that file   *)
(* in the session restores it instead of seeding the default segment.      *)
(***************************************************************************)
C3_DurableRestore ==
  [][\A k \in DOMAIN durableStart :
       /\ (k \notin lsRead' /\ k \notin completed')
            => (k \in DOMAIN ls' /\ ls'[k] = durableStart[k])
       /\ (ReadyStep /\ wsKey = k /\ k \notin opened)
            => NextRows = Parse(durableStart[k])]_vars

(***************************************************************************)
(* C6. Edits are persisted once the flag has been cleared: every           *)
(* segment-list mutation (add, delete, edit, drag) made after the          *)
(* ready-time restore or seed of the current file has completed is written *)
(* to the in-memory map and to durable storage under the current file's    *)
(* key.                                                                    *)
(***************************************************************************)
Mutation ==
  \/ AddRow /\ rows' # rows
  \/ \E id \in AllIds, patch \in UIPatches : UpdateRow(id, patch)
  \/ \E id \in AllIds, ev \in DragEvents : RegionUpdated(id, ev[1], ev[2])
  \/ \E id \in AllIds : RemoveRow(id)

C6_MutationsPersisted ==
  [][(Mutation /\ ~wsLoading /\ HasFile(files, current))
       => /\ KeyAt(files, current) \in DOMAIN fileRowsRef'
          /\ fileRowsRef'[KeyAt(files, current)] = rows'
          /\ KeyAt(files, current) \in DOMAIN ls'
          /\ ls'[KeyAt(files, current)] = Stringify(rows')]_vars

\* The first half of the claim: the flag is always eventually cleared when
\* ready events, renders and animation frames keep firing.
FairSpec ==
  Spec /\ WF_vars(Ready) /\ WF_vars(Render) /\ WF_vars(Effects) /\ WF_vars(AnimationFrame)
FlagEventuallyCleared == isRestoringRef ~> ~isRestoringRef

(***************************************************************************)
(* C8. Segment length invariant: in every reachable state every segment of *)
(* the current list and of every cache entry has end - start <= maxLen and *)
(* 0.5 <= maxLen <= 5.0; and no operation rejects its input to keep the    *)
(* bound: a drag reported at [s, e] moves the segment to s with its end    *)
(* clamped, not beyond e, and a typed maxLen v is stored clamped into      *)
(* [0.5, min(5.0, duration + 1.0)] with the end clamped to it.             *)
(***************************************************************************)
LengthOk(r) == r.end - r.start <= r.maxLen /\ MIN_LEN <= r.maxLen /\ r.maxLen <= MAX_LEN
AllLengthOk(rs) == \A i \in DOMAIN rs : LengthOk(rs[i])

ListsLengthOk ==
  /\ AllLengthOk(rows)
  /\ \A k \in DOMAIN fileRowsRef : AllLengthOk(fileRowsRef[k])
  /\ \A k \in DOMAIN ls : AllLengthOk(Parse(ls[k]))

Clamp(x, lo, hi) == Max(lo, Min(hi, x))

\* The operation on segment id takes its input, clamped.
InputTaken(id) ==
  /\ \A ev \in DragEvents :
       RegionUpdated(id, ev[1], ev[2])
         => LET q == Find(rows', id)
            IN q.start = ev[1] /\ q.end <= ev[2] /\ q.end - q.start <= q.maxLen
  /\ \A v \in MaxLenInputs :
       UpdateRow(id, MaxLenPatch(v))
         => LET q == Find(rows', id)
                dur == DurOf(wsDuration, duration)
            IN /\ q.maxLen = Clamp(v, MIN_LEN, Min(MAX_LEN, dur + ONE_SECOND))
               /\ q.end - q.start <= q.maxLen

C8_SegmentLength ==
  ListsLengthOk
    /\ [][ /\ ListsLengthOk'
           /\ ops' # ops => \A id \in IdsOf(QRows) \cap IdsOf(rows') : InputTaken(id) ]_vars

\* A segment added in the session was dragged to 0.5 s by an event wider
\* than its maxLen and its maxLen was typed below the minimum: maxLen is
\* clamped to MIN_LEN, end to start + maxLen, and the segment is cached in
\* memory and in durable storage.
C8_Witness ==
  \E k \in DOMAIN fileRowsRef : \E i \in DOMAIN fileRowsRef[k] :
    LET r == fileRowsRef[k][i]
    IN /\ r.id \in IdPool
       /\ r.start = 1 /\ r.maxLen = MIN_LEN /\ r.end = r.start + MIN_LEN
       /\ rows = fileRowsRef[k]
       /\ k \in DOMAIN ls /\ Parse(ls[k]) = fileRowsRef[k]

(***************************************************************************)
(* C7. Post-condition of applyPatch (updateRow): for every segment, every  *)
(* patch that a caller of updateRow produces (a typed maxLen, negative,    *)
(* zero or out of range included, or a typed label) and every positive or  *)
(* unknown duration, the resulting segment has 0.5 <= maxLen <= 5.0,       *)
(* start >= 0, end <= start + maxLen and, when the duration is finite,     *)
(* end <= duration.                                                        *)
(***************************************************************************)
PatchPost(r, dur) ==
  /\ MIN_LEN <= r.maxLen /\ r.maxLen <= MAX_LEN
  /\ r.start >= 0
  /\ r.end <= r.start + r.maxLen
  /\ isFinite(dur) => r.end <= dur

C7_PatchPostcondition ==
  fnResult # << >> => PatchPost(fnResult[1], fnArgs[3])

\* updateRow was applied to a segment that lies beyond the audio, with a
\* maxLen typed beyond MAX_LEN: maxLen is brought down to the duration + 1 s,
\* the start moved back and the end capped by the duration.
C7_Witness ==
  /\ fnResult # << >>
  /\ fnArgs[1].start = 7 /\ fnArgs[2] = MaxLenPatch(12) /\ fnArgs[3] = 3
  /\ fnResult[1].maxLen = 5 /\ fnResult[1].start = 0 /\ fnResult[1].end = 3

(***************************************************************************)
(* C9. Segment cap: the current list never has more than 7 segments, and   *)
(* an add attempted when 7 segments exist leaves the segment list and the  *)
(* view's regions unchanged.                                               *)
(***************************************************************************)
C9_SegmentCap ==
  [][ /\ Len(rows') <= MAX_REGIONS
      /\ (AddRow /\ Len(rows) = MAX_REGIONS)
           => (rows' = rows /\ regions' = regions /\ Len(rows') = MAX_REGIONS) ]_vars

(***************************************************************************)
(* C10. Purge on complete: once a file has been marked complete, its key   *)
(* has no entry in the in-memory map nor in durable storage for as long as *)
(* no file with that key is in the list, and the load of a file with that  *)
(* key that is picked afterwards finds no cached segments, so that its     *)
(* ready seeds the default single segment.                                 *)
(***************************************************************************)
C10_PurgeOnComplete ==
  [][ /\ \A k \in completed' :
           k \notin Range(files') => (k \notin DOMAIN fileRowsRef' /\ k \notin DOMAIN ls')
      /\ (LoadStarts /\ KeyAt(files', current') \in completed
            /\ KeyAt(files', current') \notin Range(files))
           => (seedOnReadyRef' /\ pendingRowsRef' = << >>) ]_vars

(***************************************************************************)
(* C11. Default seeding: when the view reports ready for a file for which  *)
(* the load found no cached segments, the segment list becomes exactly one *)
(* segment with start 0, end min(1.0, duration), maxLen 1.0, empty label   *)
(* and the first palette colour; and a ready seeds only when no cached     *)
(* segments exist for the file and the segment list is empty, so that no   *)
(* existing segment is replaced or discarded.                              *)
(***************************************************************************)
\* The step is a ready that seeds the default segment (lines 283-294).
SeedStep ==
  /\ ReadyStep
  /\ Len(pendingRowsRef) = 0
  /\ seedOnReadyRef \/ (Len(regions) = 0 /\ Len(rowsShadowRef) = 0)

IsDefaultSeed(rs, d) ==
  /\ Len(rs) = 1
  /\ rs[1].start = 0 /\ rs[1].end = Min(DEFAULT_MAX_LEN, d)
  /\ rs[1].maxLen = DEFAULT_MAX_LEN /\ rs[1].label = << >> /\ rs[1].color = COLORS[1]

C11_DefaultSeeding ==
  [][ /\ (ReadyStep /\ HasFile(files, current) /\ wsKey = KeyAt(files, current)
            /\ Len(pendingRowsRef) = 0)
           => IsDefaultSeed(NextRows, FileDuration(wsKey))
      /\ SeedStep
           => /\ QRows = << >>
              /\ ~HasCached(Cached(wsKey, fileRowsRef, ls)) ]_vars

(***************************************************************************)
(* C12. Drag reconciliation: for every region-updated event that the view  *)
(* reports for a segment of the list with bounds (s, e), if e - s > maxLen *)
(* the view's region is set to [s, s + maxLen], and after the handler the  *)
(* stored segment has start = s and end = min(s + maxLen, e), which are    *)
(* the bounds of the view's region. The list is the segment list with the  *)
(* pending updates applied.                                                *)
(***************************************************************************)
C12_DragReconciled ==
  [][\A id \in IdsOf(QRows), ev \in DragEvents :
       RegionUpdated(id, ev[1], ev[2])
         => LET s == ev[1]
                e == ev[2]
                maxLen == Find(QRows, id).maxLen
                r == Find(rows', id)
                g == Find(regions', id)
            IN /\ (e - s > maxLen) => (g.start = s /\ g.end = s + maxLen)
               /\ r.start = s /\ r.end = Min(s + maxLen, e)
               /\ g.start = r.start /\ g.end = r.end ]_vars

(***************************************************************************)
(* C13. Audio buffer ownership: whenever a segment is exported (saveRow or *)
(* saveAll), the decoded audio that is sliced is the decoded content of    *)
(* the file that is current at that moment, for every ordering of file     *)
(* switches, ready events and decode completions.                          *)
(***************************************************************************)
C13_ExportFromCurrentFile ==
  \A i \in DOMAIN exports : exports[i].source = exports[i].name

(***************************************************************************)
(* C17. Save-all is sequential and ordered: a save-all batch over a list   *)
(* of n segments, with a decoded buffer and a current file, produces       *)
(* exactly n exports, one per segment in list order, each started after    *)
(* the one before it has completed; the batch leaves the segment list, the *)
(* cache and the current file unchanged.                                   *)
(***************************************************************************)
C17_SaveAllOrdered ==
  [][(SaveAll /\ CanSave)
       => /\ exports' = [i \in DOMAIN rows |->
                           ExportOf(rows[i], audioBuffer, files, current)]
          /\ UNCHANGED << rows, fileRowsRef, ls, files, current >> ]_vars

(***************************************************************************)
(* C14. Colour uniqueness: in every reachable state with at most 7         *)
(* segments, every segment's colour is one of the 7 palette swatches and   *)
(* no two segments of the current list have the same colour.               *)
(***************************************************************************)
C14_ColoursUnique ==
  Len(rows) <= MAX_REGIONS
    => /\ \A i \in DOMAIN rows : rows[i].color \in Range(COLORS)
       /\ \A i, j \in DOMAIN rows : i # j => rows[i].color # rows[j].color

(***************************************************************************)
(* C15. assignColor (pickColor): for every list of existing segments, the  *)
(* result is the first swatch in palette order that no existing segment    *)
(* uses; when all 7 palette colours are in use the result is the first     *)
(* palette colour.                                                         *)
(***************************************************************************)
C15_FirstFreeColour ==
  fnResult # << >>
    => LET used == { fnArgs[1][i].color : i \in DOMAIN fnArgs[1] }
           c == fnResult[1]
       IN IF Range(COLORS) \subseteq used
          THEN c = COLORS[1]
          ELSE \E i \in DOMAIN COLORS :
                 /\ c = COLORS[i]
                 /\ c \notin used
                 /\ \A j \in 1..(i - 1) : COLORS[j] \in used

\* pickColor was called on seven segments that use all seven colours and
\* returned the first palette colour.
C15_Witness ==
  /\ fnResult = << COLORS[1] >>
  /\ Len(fnArgs[1]) = Len(COLORS)
  /\ Range(COLORS) \subseteq { fnArgs[1][i].color : i \in DOMAIN fnArgs[1] }

(***************************************************************************)
(* C16. Best-effort durable writes: when the writes to durable storage     *)
(* fail, no step sets an entry of the durable storage, and every step that *)
(* persists still completes and leaves the list it persists in the         *)
(* in-memory map under the current file's key: a click in the file list    *)
(* (the list on screen; the click goes on to select the file), a list      *)
(* mutation and the effects of a render, once the flag is cleared (the     *)
(* list rendered), and a page teardown (the list of the listener, that of  *)
(* the last render whose effects have run); and a later ready of a file in *)
(* the session restores the list that was on screen when the file was last *)
(* persisted in memory.                                                    *)
(***************************************************************************)
\* The in-memory map holds list L for the file that is current before the
\* step.
MapHolds(L) ==
  /\ KeyAt(files, current) \in DOMAIN fileRowsRef'
  /\ fileRowsRef'[KeyAt(files, current)] = L

C16_BestEffortWrites ==
  [][storageFull =>
       /\ ~WritesLS
       /\ (HasFile(files, current) /\ ops' # ops) =>
            /\ \A i \in 0..(Len(files) - 1) :
                 SelectFile(i) => (MapHolds(rows) /\ current' = i /\ rafPending')
            /\ (~isRestoringRef /\ Mutation) => MapHolds(rows')
            /\ BeforeUnload => (MapHolds(rowsShadowRef)
                                  /\ (~effectsPending => rowsShadowRef = rows))
       /\ (HasFile(files, current) /\ effectsPending /\ ~isRestoringRef /\ Effects)
            => MapHolds(rows)
       /\ (expectRows # << >> /\ WellFormed(expectRows)) =>
            /\ ReadyStep => NextRows = expectRows
            /\ (RenderStep /\ QRowsSet /\ ~wsLoading) => rows' = expectRows ]_vars

\* With the storage full, a list made in the session has been restored from
\* the in-memory map for a file that has no entry in the durable storage.
C16_Witness ==
  /\ storageFull
  /\ ~wsLoading /\ queued = << >> /\ ~effectsPending /\ pendingRowsRef = << >>
  /\ Len(expectRows) >= 1 /\ rows = expectRows
  /\ HasFile(files, current) /\ KeyAt(files, current) = wsKey
  /\ wsKey \notin DOMAIN ls

(***************************************************************************)
(* C18. WAV header and layout: for every buffer with C channels, F frames  *)
(* and sample rate R, the encoder's output has 44 + 2*C*F bytes, RIFF size *)
(* 36 + 2*C*F, format tag 1, channel count C, sample rate R, byte rate     *)
(* R*C*2, block align C*2, 16 bits per sample and data size 2*C*F, and the *)
(* 16-bit sample of channel ch at frame i is at byte offset                *)
(* 44 + 2*(i*C + ch).                                                      *)
(***************************************************************************)
\* Little-endian reads at a byte offset counted from 0.
RdU16(b, off) == b[off + 1] + 256 * b[off + 2]
RdU32(b, off) == b[off + 1] + 256 * b[off + 2] + 65536 * b[off + 3] + 16777216 * b[off + 4]
RdI16(b, off) == ToInt16(RdU16(b, off))

C18_WavLayout ==
  fnResult # << >>
    => LET ab == fnArgs[1]
           b == fnResult[1]
           C == ab.numberOfChannels
           F == ab.length
           R == ab.sampleRate
       IN /\ Len(b) = 44 + 2 * C * F
          /\ RdU32(b, 4) = 36 + 2 * C * F
          /\ RdU16(b, 20) = 1
          /\ RdU16(b, 22) = C
          /\ RdU32(b, 24) = R
          /\ RdU32(b, 28) = R * C * 2
          /\ RdU16(b, 32) = C * 2
          /\ RdU16(b, 34) = 16
          /\ RdU32(b, 40) = 2 * C * F
          /\ \A ch \in 0..(C - 1), i \in 0..(F - 1) :
               RdI16(b, 44 + 2 * (i * C + ch)) = SampleToInt16(ab.data[ch + 1][i + 1])

\* A buffer of two channels and two frames, with different samples in the
\* second frame of the first channel and the first frame of the second, was
\* encoded.
C18_Witness ==
  /\ fnResult # << >>
  /\ fnArgs[1].numberOfChannels = 2 /\ fnArgs[1].length = 2
  /\ fnArgs[1].data[1][2] # fnArgs[1].data[2][1]

(***************************************************************************)
(* C19. WAV sample round trip: for every sample s in [-1, 1], the stored   *)
(* signed 16-bit integer v (s scaled by 32768 when negative, by 32767      *)
(* otherwise, fraction discarded) decoded as v / 32768 is within 1 / 32768 *)
(* of s.                                                                   *)
(***************************************************************************)
\* |n / SAMPLE_GRID - v / 32768| <= 1 / 32768, in steps of the grid
WithinQuantum(n, v) ==
  LET q == SAMPLE_GRID \div NEG_SCALE
  IN (n - v * q <= q) /\ (v * q - n <= q)

C19_SampleRoundTrip ==
  (fnResult # << >> /\ 0 - SAMPLE_GRID <= fnArgs[1] /\ fnArgs[1] <= SAMPLE_GRID)
    => WithinQuantum(fnArgs[1], fnResult[1])

(***************************************************************************)
(* C20. Buffer slicing: for every buffer of L frames at sample rate R and  *)
(* every start and end in seconds, with startFrame = floor(start * R) and  *)
(* endFrame = floor(end * R) each clamped to [0, L], the slice has exactly *)
(* max(0, endFrame - startFrame) frames per channel and frame j of each    *)
(* channel is frame startFrame + j of the same source channel; a range     *)
(* with end <= start gives an empty buffer and no error; and [2.0, 3.0] of *)
(* a 10-second buffer at 44100 Hz gives 44100 frames.                      *)
(***************************************************************************)
C20_SliceFrames ==
  /\ SliceFrames(SliceStart(44100, 2, 1), SliceEnd(44100, 441000, 3, 1)) = 44100
  /\ fnResult # << >>
       => LET ab == fnArgs[2]
              out == fnResult[1]
              startFrame == Clamp((fnArgs[3] * ab.sampleRate) \div SliceTimeDen, 0, ab.length)
              endFrame == Clamp((fnArgs[4] * ab.sampleRate) \div SliceTimeDen, 0, ab.length)
              n == Max(0, endFrame - startFrame)
          IN /\ ~Threw(out)
             /\ out.length = n
             /\ \A ch \in 1..ab.numberOfChannels :
                  /\ Len(out.data[ch]) = n
                  /\ \A j \in 1..n : out.data[ch][j] = ab.data[ch][startFrame + j]
             /\ fnArgs[4] <= fnArgs[3] => out.length = 0

(***************************************************************************)
(* C21. Add is enabled only on a loaded, ready file: addRow adds a segment *)
(* only when the view has reported ready for the current file; between    *)
(* the start of a load and that load's ready event addRow is a no-op.      *)
(***************************************************************************)
C21_AddOnlyWhenReady ==
  [][(AddRow /\ rows' # rows)
       => (~wsLoading /\ HasFile(files, current) /\ wsKey = KeyAt(files, current))]_vars

(***************************************************************************)
(* C22. Model/view consistency: in every state where no state update is    *)
(* pending the ids of the view's regions are the ids of the segments of    *)
(* the current list, and for each id the region's start and end are the    *)
(* segment's start and min(start + maxLen, end).                           *)
(***************************************************************************)
C22_ModelViewConsistent ==
  queued = << >>
    => /\ IdsOf(regions) = IdsOf(rows)
       /\ Len(regions) = Len(rows)
       /\ \A i \in DOMAIN rows :
            LET r == rows[i]
                g == Find(regions, r.id)
            IN g.start = r.start /\ g.end = Min(r.start + r.maxLen, r.end)

(***************************************************************************)
(* C23. Frame of per-segment operations: updateRow, a drag event and       *)
(* removeRow for segment id leave every other segment of the list          *)
(* unchanged on all fields and keep the list order; and an updateRow whose *)
(* patch contains only a label leaves maxLen, start, end and color of the  *)
(* targeted segment unchanged. The list before the operation is the        *)
(* segment list with the pending updates applied.                          *)
(***************************************************************************)
\* The segments other than id, in list order.
Others(rs, id) == SelectSeq(rs, LAMBDA r : r.id # id)

C23_PerSegmentFrame ==
  [][\A id \in IdsOf(rows) \cup IdsOf(regions) :
       /\ ((\E patch \in UIPatches : UpdateRow(id, patch))
            \/ (\E ev \in DragEvents : RegionUpdated(id, ev[1], ev[2])))
            => /\ Len(rows') = Len(QRows)
               /\ \A i \in DOMAIN QRows :
                    QRows[i].id = id \/ rows'[i] = QRows[i]
       /\ RemoveRow(id) => rows' = Others(QRows, id)
       /\ (id \in IdsOf(QRows) /\ \E t \in Labels : UpdateRow(id, LabelPatch(t)))
            => LET r == Find(QRows, id)
                   q == Find(rows', id)
               IN /\ q.maxLen = r.maxLen /\ q.start = r.start
                  /\ q.end = r.end /\ q.color = r.color ]_vars

(***************************************************************************)
(* C24. Picking additional files while a file is open keeps its work: when *)
(* files are appended to a non-empty list while file A is current with a   *)
(* non-empty segment list L (the list with the pending updates applied)    *)
(* and no load in progress, the current index and the existing files are   *)
(* unchanged, L is in the cache when the reload of A reads it, and the     *)
(* reload holds L for the following ready to restore.                      *)
(***************************************************************************)
C24_PickKeepsWork ==
  [][(Len(files') > Len(files) /\ HasFile(files, current) /\ QRows # << >>
        /\ ~wsLoading)
       => LET A == KeyAt(files, current)
          IN /\ current' = current
             /\ SubSeq(files', 1, Len(files)) = files
             /\ A \in DOMAIN fileRowsRef' /\ fileRowsRef'[A] = QRows
             /\ wsLoading' /\ wsKey' = A
             /\ pendingRowsRef' = QRows ]_vars

====
